---- MODULE Spec2Model ----
(***************************************************************************)
(* Model of src/main.cpp: the simulated-annealing TSP solver.              *)
(*                                                                         *)
(* Numbers.  The program computes in IEEE doubles.  The model uses one     *)
(* fixed-point unit for temperatures and distances: 1 unit = 0.00001, so   *)
(* the temperature floor 0.00001 is 1 and the start temperature 10000.0    *)
(* is 1000000000.  A position of the tour is 0-based as in the source; the  *)
(* sequence that stores the tour is 1-based, so position k is tour[k + 1]. *)
(*                                                                         *)
(* Rounding.  A double keeps 53 significant bits, so a sum of distances is *)
(* rounded and depends on the order of the additions.  The model keeps     *)
(* that with a shorter format: a distance has three significant decimal    *)
(* digits (sqrt rounds down to them), and every addition or subtraction of *)
(* distances is rounded to three significant digits, ties to even.         *)
(*                                                                         *)
(* Cooling.  The source multiplies T by 0.9999, about 207 000 times until  *)
(* the floor is reached.  The model keeps the shape of the schedule (one   *)
(* rounded multiplication per executed move, exit when T <= floor) with    *)
(* the coarser factor 1 / CoolDivisor, so that a whole run is explored.    *)
(***************************************************************************)
EXTENDS Integers, Sequences, FiniteSets

(***************************************************************************)
(* Bounds of the model.                                                    *)
(***************************************************************************)
\* Largest number of cities of an instance.
MaxN == 4

\* One cooling step divides the temperature by this number.
CoolDivisor == 1000

\* The history counter of executed moves stops counting here; a run makes
\* fewer moves than this.
MaxMoves == 8

(***************************************************************************)
(* Cities (struct City, parsed input).                                     *)
(***************************************************************************)
City(index, x, y) == [index |-> index, x |-> x, y |-> y]

\* The parsed file: an instance is a prefix of this list.
CityPool ==
  << City(1, 0, 0), City(2, 0, 1), City(3, 2, 2), City(4, 4, 4),
     City(5, 4, 0), City(6, 1, 3) >>

Min(a, b) == IF a < b THEN a ELSE b

\* A line of the file: the section marker, the end marker, a line that
\* parses as "index x y", or any other text.
Line(kind, city) == [kind |-> kind, city |-> city]

TextLine == Line("text", City(0, 0, 0))
SectionLine == Line("section", City(0, 0, 0))
EofLine == Line("eof", City(0, 0, 0))
CoordLine(city) == Line("coord", city)

\* A file with the first n cities of the pool in its coordinate section,
\* among lines the parser has to skip: a coordinate line before the section,
\* a line of text inside it, a coordinate line after the end marker.
FileOf(n) ==
  [ readable |-> TRUE,
    lines |-> << TextLine, CoordLine(CityPool[Len(CityPool)]), SectionLine,
                 CoordLine(CityPool[1]), TextLine >>
              \o [ k \in 1..(n - 1) |-> CoordLine(CityPool[k + 1]) ]
              \o << EofLine, CoordLine(CityPool[Len(CityPool)]) >> ]

\* The files main can select: one that cannot be opened, three without a
\* coordinate line the parser accepts, and one for each number of cities.
Files ==
  { [ readable |-> FALSE, lines |-> << >> ],
    [ readable |-> TRUE, lines |-> << TextLine, CoordLine(CityPool[1]) >> ],
    [ readable |-> TRUE, lines |-> << TextLine, SectionLine, TextLine, EofLine >> ],
    [ readable |-> TRUE,
      lines |-> << TextLine, EofLine, SectionLine, CoordLine(CityPool[1]) >> ] }
  \cup { FileOf(n) : n \in 1..Min(MaxN, Len(CityPool)) }

\* The while loop of parseTSPFile from line k on.
RECURSIVE ParseLines(_, _, _, _)
ParseLines(lines, k, node_coord_section, cs) ==
  IF k > Len(lines) THEN cs
  ELSE IF lines[k].kind = "section" THEN ParseLines(lines, k + 1, TRUE, cs)
  ELSE IF lines[k].kind = "eof" THEN cs
  ELSE IF node_coord_section /\ lines[k].kind = "coord"
       THEN ParseLines(lines, k + 1, node_coord_section,
                       Append(cs, lines[k].city))
  ELSE ParseLines(lines, k + 1, node_coord_section, cs)

parseTSPFile(f) ==
  IF ~f.readable THEN << >> ELSE ParseLines(f.lines, 1, FALSE, << >>)

(***************************************************************************)
(* Geometry.                                                               *)
(***************************************************************************)
\* Mutant of SquaredNorm: dy is taken from a alone.
SquaredNormOneSided(a, b) == (a.x - b.x) * (a.x - b.x) + a.y * a.y

\* dx*dx + dy*dy of euclideanDistance.
SquaredNorm(a, b) == (a.x - b.x) * (a.x - b.x) + (a.y - b.y) * (a.y - b.y)

\* Largest dx*dx + dy*dy between two cities of the pool.
MaxSquaredNorm ==
  LET S == { SquaredNorm(CityPool[p], CityPool[q]) :
               p \in 1..Len(CityPool), q \in 1..Len(CityPool) }
  IN  CHOOSE m \in S : \A s \in S : s <= m

\* sqrt(s) to three significant digits, rounded down, in units of 0.00001
\* (all distances of the pool lie in [1, 10) or are 0).
SqrtTable ==
  [ s \in 0..MaxSquaredNorm |->
      1000 * (CHOOSE r \in 0..(100 * (s + 1)) :
                r * r <= 10000 * s /\ 10000 * s < (r + 1) * (r + 1)) ]

sqrt(s) == SqrtTable[s]

euclideanDistance(a, b) == sqrt(SquaredNorm(a, b))

\* The weight of the last of three significant decimal digits of v >= 0.
RECURSIVE Granule(_)
Granule(v) == IF v < 1000 THEN 1 ELSE 10 * Granule(v \div 10)

\* v >= 0 rounded to three significant digits, ties to even.
RoundedMagnitude(v) ==
  LET g == Granule(v)
      q == v \div g
      r == v % g
  IN  IF 2 * r < g THEN q * g
      ELSE IF 2 * r > g THEN (q + 1) * g
      ELSE (q + (q % 2)) * g

\* The result of a double addition or subtraction whose exact value is v
\* (v is evaluated once, x is its value).
Rounded(v) ==
  CHOOSE r \in { IF x < 0 THEN 0 - RoundedMagnitude(0 - x)
                           ELSE RoundedMagnitude(x) : x \in {v} } : TRUE

\* The edge that leaves position k: cities[tour[k]] to cities[tour[(k+1)%n]].
EdgeLength(t, cs, k) ==
  euclideanDistance(cs[t[k + 1] + 1], cs[t[((k + 1) % Len(t)) + 1] + 1])

\* Mutant of DistanceFrom: the loop stops before the last position, so the
\* edge back to the first position is left out.
RECURSIVE DistanceFromNoWrap(_, _, _, _)
DistanceFromNoWrap(t, cs, k, dist) ==
  IF k >= Len(t) - 1 THEN dist
  ELSE DistanceFromNoWrap(t, cs, k + 1, Rounded(dist + EdgeLength(t, cs, k)))

\* The loop of totalDistance from i = k on, with dist accumulated so far.
RECURSIVE DistanceFrom(_, _, _, _)
DistanceFrom(t, cs, k, dist) ==
  IF k >= Len(t) THEN dist
  ELSE DistanceFrom(t, cs, k + 1, Rounded(dist + EdgeLength(t, cs, k)))

totalDistance(t, cs) == DistanceFrom(t, cs, 0, 0)

(***************************************************************************)
(* Tours.                                                                  *)
(***************************************************************************)
\* Mutant of Reverse: the mirrored element is copied, the two are not swapped.
ReverseOverwrites(t, first, last) ==
  [ p \in 1..Len(t) |->
      IF first <= p - 1 /\ 2 * (p - 1) < first + last - 1
      THEN t[(first + last - 1 - (p - 1)) + 1]
      ELSE t[p] ]

\* std::reverse(t.begin() + first, t.begin() + last): the half-open range
\* of positions first .. last - 1 is reversed.
Reverse(t, first, last) ==
  [ p \in 1..Len(t) |->
      IF first <= p - 1 /\ p - 1 < last
      THEN t[(first + last - 1 - (p - 1)) + 1]
      ELSE t[p] ]

\* Every order std::shuffle can give the identity tour 0 .. n-1.
Shuffles(n) ==
  { t \in [1..n -> 0..(n - 1)] : \A p, q \in 1..n : t[p] = t[q] => p = q }

(***************************************************************************)
(* Annealing parameters (simulatedAnnealing, lines 68-70).                 *)
(***************************************************************************)
initialTemperature == 1000000000

absoluteTemperature == 1

\* Mutant of Cooled: a cooling rate of 1.
NotCooled(temp) == temp

\* T *= coolingRate, rounded down.
Cooled(temp) == temp \div CoolDivisor

\* The draws of realDist used here: u = exp(-num/den).
UniformDraws == { [num |-> 1, den |-> 1], [num |-> 1, den |-> 8] }

\* exp(-d / temp) > u for u = exp(-num/den): d / temp < num / den.
ExpGreater(d, temp, draw) == d * draw.den < draw.num * temp

\* Mutant of Accepts: the Metropolis term is left out.
AcceptsImprovementOnly(d, temp, draw) == d < 0

\* The condition of line 91.
Accepts(d, temp, draw) == d < 0 \/ ExpGreater(d, temp, draw)

\* A local that holds no value yet.
NoIndex == -1

NoDraw == [num |-> 0, den |-> 0]

(***************************************************************************)
(* State.                                                                  *)
(***************************************************************************)
VARIABLES
  pc,               \* position of the program
  file,             \* main: the selected file
  exitCode,         \* main's return value, NoIndex while running
  cities,           \* main: the parsed cities
  tour,             \* main's tour, simulatedAnnealing's working tour
  initialPrinted,   \* "Initial distance" of line 183
  finalDistance,    \* line 187
  T, currentDistance, bestTour, bestDistance,   \* simulatedAnnealing
  i, j, newDistance, delta, u,                  \* locals of the loop body
  accepted,         \* outcome of the condition of line 91
  before,           \* history: the search state when the current move was drawn
  minCommitted,     \* history: least cost of the initial and committed tours
  moves,            \* history: number of draws with i # j so far, up to MaxMoves
  skipped           \* history: a draw with i = j came after the last move

vars ==
  << pc, file, exitCode, cities, tour, initialPrinted, finalDistance, T,
     currentDistance, bestTour, bestDistance, i, j, newDistance, delta, u,
     accepted, before, minCommitted, moves, skipped >>

mainVars == << file, exitCode, cities, initialPrinted, finalDistance >>
bestVars == << bestTour, bestDistance >>
bodyVars == << i, j, newDistance, delta, u, accepted >>
histVars == << before, minCommitted, moves, skipped >>

\* What a rejected move has to leave as it was.
Snapshot ==
  [ tour |-> tour, currentDistance |-> currentDistance,
    bestTour |-> bestTour, bestDistance |-> bestDistance ]

NoSnapshot ==
  [ tour |-> << >>, currentDistance |-> 0, bestTour |-> << >>,
    bestDistance |-> 0 ]

Init ==
  /\ pc = "parse"
  /\ file \in Files
  /\ exitCode = NoIndex
  /\ cities = << >>
  /\ tour = << >>
  /\ initialPrinted = 0
  /\ finalDistance = 0
  /\ T = 0
  /\ currentDistance = 0
  /\ bestTour = << >>
  /\ bestDistance = 0
  /\ i = NoIndex
  /\ j = NoIndex
  /\ newDistance = 0
  /\ delta = 0
  /\ u = NoDraw
  /\ accepted = FALSE
  /\ before = NoSnapshot
  /\ minCommitted = 0
  /\ moves = 0
  /\ skipped = FALSE

(***************************************************************************)
(* main, lines 168-183.                                                    *)
(***************************************************************************)
\* Line 168.
MainParse ==
  /\ pc = "parse"
  /\ cities' = parseTSPFile(file)
  /\ pc' = "main"
  /\ UNCHANGED << file, exitCode, tour, initialPrinted, finalDistance, T,
                  currentDistance, bestVars, bodyVars, histVars >>

\* cities.empty(): report the failure, return 1.
MainFail ==
  /\ pc = "main"
  /\ cities = << >>
  /\ pc' = "exit"
  /\ exitCode' = 1
  /\ UNCHANGED << file, cities, tour, initialPrinted, finalDistance, T,
                  currentDistance, bestVars, bodyVars, histVars >>

\* Mutant of MainShuffle: the tour is built and the engine called without
\* the check for an empty city list.
MainShuffleUnguarded ==
  /\ pc = "main"
  /\ tour' \in Shuffles(Len(cities))
  /\ initialPrinted' = totalDistance(tour', cities)
  /\ pc' = "sa_entry"
  /\ UNCHANGED << file, exitCode, cities, finalDistance, T, currentDistance,
                  bestVars, bodyVars, histVars >>

\* Build 0 .. n-1, shuffle it, print its distance, call simulatedAnnealing.
MainShuffle ==
  /\ pc = "main"
  /\ cities # << >>
  /\ tour' \in Shuffles(Len(cities))
  /\ initialPrinted' = totalDistance(tour', cities)
  /\ pc' = "sa_entry"
  /\ UNCHANGED << file, exitCode, cities, finalDistance, T, currentDistance,
                  bestVars, bodyVars, histVars >>

(***************************************************************************)
(* simulatedAnnealing.                                                     *)
(***************************************************************************)
\* Lines 68-78.
SAEntry ==
  /\ pc = "sa_entry"
  /\ T' = initialTemperature
  /\ currentDistance' = totalDistance(tour, cities)
  /\ bestTour' = tour
  /\ bestDistance' = totalDistance(tour, cities)
  /\ minCommitted' = totalDistance(tour, cities)
  /\ pc' = "loop"
  /\ UNCHANGED << mainVars, tour, bodyVars, before, moves, skipped >>

\* Mutant of DrawSkip: the skipped draw consumes a cooling step.
DrawSkipCools ==
  /\ pc = "loop"
  /\ T > absoluteTemperature
  /\ \E k \in 0..(Len(tour) - 1) : TRUE
  /\ skipped' = TRUE
  /\ T' = Cooled(T)
  /\ UNCHANGED << pc, mainVars, tour, currentDistance, bestVars, bodyVars,
                  before, minCommitted, moves >>

\* Lines 80-83, i == j: continue.  i and j are locals of the loop body and
\* die at the continue; skipped records that the draw happened.
DrawSkip ==
  /\ pc = "loop"
  /\ T > absoluteTemperature
  /\ \E k \in 0..(Len(tour) - 1) : TRUE
  /\ skipped' = TRUE
  /\ UNCHANGED << pc, mainVars, tour, T, currentDistance, bestVars,
                  bodyVars, before, minCommitted, moves >>

\* Lines 80-84, i # j: order the pair.
DrawMove ==
  /\ pc = "loop"
  /\ T > absoluteTemperature
  /\ \E a, b \in 0..(Len(tour) - 1) :
       /\ a # b
       /\ i' = Min(a, b)
       /\ j' = IF a > b THEN a ELSE b
  /\ before' = Snapshot
  /\ moves' = Min(moves + 1, MaxMoves)
  /\ skipped' = FALSE
  /\ pc' = "move"
  /\ UNCHANGED << mainVars, tour, T, currentDistance, bestVars,
                  newDistance, delta, u, accepted, minCommitted >>

\* Lines 86-89.
Propose ==
  /\ pc = "move"
  /\ tour' = Reverse(tour, i, j)
  /\ newDistance' = totalDistance(tour', cities)
  /\ delta' = Rounded(newDistance' - currentDistance)
  /\ pc' = "decide"
  /\ UNCHANGED << mainVars, T, currentDistance, bestVars, i, j, u, accepted,
                  histVars >>

\* Line 91: the condition, with a fresh draw of realDist.
Decide ==
  /\ pc = "decide"
  /\ u' \in UniformDraws
  /\ accepted' = Accepts(delta, T, u')
  /\ pc' = IF accepted' THEN "accept" ELSE "reject"
  /\ UNCHANGED << mainVars, tour, T, currentDistance, bestVars, i, j,
                  newDistance, delta, histVars >>

\* Mutant of Commit: the accepted tour's cost is not stored.
CommitForgetsCost ==
  /\ pc = "accept"
  /\ IF newDistance < bestDistance
     THEN /\ bestDistance' = newDistance
          /\ bestTour' = tour
     ELSE UNCHANGED bestVars
  /\ minCommitted' = Min(minCommitted, totalDistance(tour, cities))
  /\ pc' = "cool"
  /\ UNCHANGED << mainVars, tour, T, currentDistance, bodyVars, before,
                  moves, skipped >>

\* Mutant of Commit: the best tour is never updated.
CommitNeverBest ==
  /\ pc = "accept"
  /\ currentDistance' = newDistance
  /\ minCommitted' = Min(minCommitted, totalDistance(tour, cities))
  /\ pc' = "cool"
  /\ UNCHANGED << mainVars, tour, T, bestVars, bodyVars, before, moves,
                  skipped >>

\* Mutant of Commit: every accepted tour is recorded as the best one.
CommitAlwaysBest ==
  /\ pc = "accept"
  /\ currentDistance' = newDistance
  /\ bestDistance' = newDistance
  /\ bestTour' = tour
  /\ minCommitted' = Min(minCommitted, totalDistance(tour, cities))
  /\ pc' = "cool"
  /\ UNCHANGED << mainVars, tour, T, bodyVars, before, moves, skipped >>

\* Lines 92-96.
Commit ==
  /\ pc = "accept"
  /\ currentDistance' = newDistance
  /\ IF newDistance < bestDistance
     THEN /\ bestDistance' = newDistance
          /\ bestTour' = tour
     ELSE UNCHANGED bestVars
  /\ minCommitted' = Min(minCommitted, totalDistance(tour, cities))
  /\ pc' = "cool"
  /\ UNCHANGED << mainVars, tour, T, bodyVars, before, moves, skipped >>

\* Mutant of Rollback: the undo reverses one position more than the move.
RollbackWiderRange ==
  /\ pc = "reject"
  /\ tour' = Reverse(tour, i, j + 1)
  /\ pc' = "cool"
  /\ UNCHANGED << mainVars, T, currentDistance, bestVars, bodyVars, histVars >>

\* Line 98.
Rollback ==
  /\ pc = "reject"
  /\ tour' = Reverse(tour, i, j)
  /\ pc' = "cool"
  /\ UNCHANGED << mainVars, T, currentDistance, bestVars, bodyVars, histVars >>

\* Line 100; the locals of the body end with the iteration.
Cool ==
  /\ pc = "cool"
  /\ T' = Cooled(T)
  /\ i' = NoIndex
  /\ j' = NoIndex
  /\ newDistance' = 0
  /\ delta' = 0
  /\ u' = NoDraw
  /\ accepted' = FALSE
  /\ before' = NoSnapshot
  /\ pc' = "loop"
  /\ UNCHANGED << mainVars, tour, currentDistance, bestVars, minCommitted,
                  moves, skipped >>

\* Mutant of Finish: the working tour is returned as it is.
FinishKeepsCurrent ==
  /\ pc = "loop"
  /\ ~(T > absoluteTemperature)
  /\ pc' = "returned"
  /\ UNCHANGED << mainVars, tour, T, currentDistance, bestVars, bodyVars,
                  histVars >>

\* Lines 80 and 102: the loop ends, tour = bestTour, return.
Finish ==
  /\ pc = "loop"
  /\ ~(T > absoluteTemperature)
  /\ tour' = bestTour
  /\ pc' = "returned"
  /\ UNCHANGED << mainVars, T, currentDistance, bestVars, bodyVars, histVars >>

\* main, lines 187-207.
MainReport ==
  /\ pc = "returned"
  /\ finalDistance' = totalDistance(tour, cities)
  /\ exitCode' = 0
  /\ pc' = "exit"
  /\ UNCHANGED << file, cities, tour, initialPrinted, T, currentDistance,
                  bestVars, bodyVars, histVars >>

Next ==
  \/ MainParse
  \/ MainFail
  \/ MainShuffle
  \/ SAEntry
  \/ DrawSkip
  \/ DrawMove
  \/ Propose
  \/ Decide
  \/ Commit
  \/ Rollback
  \/ Cool
  \/ Finish
  \/ MainReport

Spec == Init /\ [][Next]_vars

\* The program is sequential and keeps running, and the generator does not
\* return equal positions forever when two different ones exist.
FairSpec == Spec /\ WF_vars(Next) /\ WF_vars(DrawMove)

(***************************************************************************)
(* Properties.                                                             *)
(***************************************************************************)
\* simulatedAnnealing has been called and has run lines 68-78.
Annealing == pc \in {"loop", "move", "decide", "accept", "reject", "cool"}

\* The tour exists: main has shuffled it.
TourBuilt == Annealing \/ pc \in {"sa_entry", "returned"} \/ exitCode = 0

\* simulatedAnnealing's bookkeeping is initialised.
SearchStarted == Annealing \/ pc = "returned" \/ exitCode = 0

IsPermutation(t, n) ==
  /\ Len(t) = n
  /\ \A c \in 0..(n - 1) : Cardinality({ p \in 1..Len(t) : t[p] = c }) = 1

\* C1: from the shuffled tour on, through every step of every iteration and
\* after tour = bestTour, the working tour has length n and holds each of
\* 0 .. n-1 exactly once.
C1_PermutationInvariant ==
  TourBuilt => IsPermutation(tour, Len(cities))

\* C1 witness: a run over four cities has made moves, ended on a tour worse
\* than the best one and assigned bestTour.
C1_Witness ==
  /\ pc = "returned"
  /\ Len(cities) >= 4
  /\ moves >= 2
  /\ currentDistance > bestDistance
  /\ IsPermutation(tour, Len(cities))

\* C2: bestDistance is the least cost among the initial tour and the tours
\* committed so far, bestTour costs exactly bestDistance, and bestDistance
\* never increases.
C2_BestTracking ==
  /\ [](SearchStarted =>
          /\ bestDistance = minCommitted
          /\ totalDistance(bestTour, cities) = bestDistance)
  /\ [][(SearchStarted /\ SearchStarted') => bestDistance' <= bestDistance]_vars

\* C2 witness: the best cost has improved on the initial tour's and the
\* current tour is worse than the best one.
C2_Witness ==
  /\ Annealing
  /\ bestDistance < initialPrinted
  /\ bestDistance < currentDistance
  /\ bestDistance = minCommitted

\* C3: when simulatedAnnealing has returned, the caller's tour is bestTour.
C3_ReturnsBest ==
  pc = "returned" => (tour = bestTour /\ totalDistance(tour, cities) = bestDistance)

\* C3 witness: the run returned bestTour although the last committed tour
\* was a worse one.
C3_Witness ==
  /\ pc = "returned"
  /\ tour = bestTour
  /\ currentDistance > bestDistance

\* C4: with at most one city the loop makes no draw: from the loop head the
\* only step is the return.
C4_DegenerateReturnsAtOnce ==
  [][(Len(cities) <= 1 /\ pc = "loop") => pc' = "returned"]_vars

\* C5: with two cities or more the run reaches the return; it returns only
\* with T <= absoluteTemperature, and once T <= absoluteTemperature at the
\* loop head nothing but the return is executed.
C5_Termination ==
  /\ (Len(cities) >= 2 /\ pc = "sa_entry") ~> (pc = "returned")
  /\ [](pc = "returned" => T <= absoluteTemperature)
  /\ [][(pc = "loop" /\ T <= absoluteTemperature) => pc' = "returned"]_vars
  /\ []((Annealing /\ pc # "loop") => T > absoluteTemperature)

\* C5 witness: a run over at least two cities has made moves and returned.
C5_Witness ==
  /\ pc = "returned"
  /\ Len(cities) >= 2
  /\ moves >= 3
  /\ T <= absoluteTemperature

\* The move as the specification states it: positions first .. last
\* inclusive are reversed.
ReverseInclusive(t, first, last) ==
  [ p \in 1..Len(t) |->
      IF first <= p - 1 /\ p - 1 <= last
      THEN t[(first + last - (p - 1)) + 1]
      ELSE t[p] ]

\* C6: the proposed tour is the tour before the move with the positions
\* i .. j inclusive reversed, every other position unchanged.
C6_ReversesInclusiveRange ==
  pc = "decide" => (i < j /\ tour = ReverseInclusive(before.tour, i, j))

\* C7: after a rejected move the tour, currentDistance, bestTour and
\* bestDistance are what they were when the move was drawn, and the cooling
\* step that ends the iteration leaves them alone.
C7_RejectionRollback ==
  /\ []((pc = "cool" /\ ~accepted) => Snapshot = before)
  /\ [][pc = "cool" => UNCHANGED << tour, currentDistance, bestVars >>]_vars

\* C7 witness: a move that changed the tour and its cost was rejected and
\* undone.
C7_Witness ==
  /\ pc = "cool"
  /\ ~accepted
  /\ delta > 0
  /\ i + 1 < j
  /\ tour = before.tour

\* C8: a move with delta < 0 is accepted whatever u is; a move with
\* delta >= 0 is accepted exactly when exp(-delta / T) > u, that is, for
\* u = exp(-num/den), when delta / T < num / den.
C8_AcceptanceRule ==
  pc \in {"accept", "reject"} =>
    /\ delta = Rounded(newDistance - currentDistance)
    /\ u \in UniformDraws
    /\ (pc = "accept") = accepted
    /\ delta < 0 => pc = "accept"
    /\ delta >= 0 => ((pc = "accept") = (delta * u.den < u.num * T))

\* C8 witness: an uphill move was accepted.
C8_Witness ==
  /\ pc = "accept"
  /\ delta > 0
  /\ delta * u.den < u.num * T

\* The temperature after k cooling steps.
RECURSIVE TemperatureAfter(_)
TemperatureAfter(k) ==
  IF k = 0 THEN initialTemperature ELSE Cooled(TemperatureAfter(k - 1))

\* C9: a draw with i = j leaves T, the tour, currentDistance, bestTour and
\* bestDistance unchanged, and after k draws with i # j the temperature is
\* initialTemperature cooled k times, whatever was accepted or skipped.
C9_CoolingSchedule ==
  /\ [][(pc = "loop" /\ pc' = "loop") =>
          UNCHANGED << T, tour, currentDistance, bestVars >>]_vars
  /\ [](moves < MaxMoves)
  /\ []((pc = "loop" \/ pc = "returned") => T = TemperatureAfter(moves))
  /\ []((Annealing /\ pc # "loop") => T = TemperatureAfter(moves - 1))

\* C9 witness: a draw was skipped after two executed moves, one of them
\* rejected or accepted, and the temperature was cooled exactly twice.
C9_Witness ==
  /\ pc = "loop"
  /\ moves = 2
  /\ skipped
  /\ T = Cooled(Cooled(initialTemperature))

\* C10: a move that reaches the evaluation and the decision has changed the
\* tour.
C10_NoNoOpEvaluated ==
  pc \in {"decide", "accept", "reject"} => tour # before.tour

\* The distances of the first m edges of tour t added up in order, edge k
\* joining the cities at positions k and (k + 1) mod n.
RECURSIVE SumOfEdges(_, _, _)
SumOfEdges(t, cs, m) ==
  IF m = 0 THEN 0
  ELSE LET a == cs[t[m] + 1]
           b == cs[t[(m % Len(t)) + 1] + 1]
       IN  Rounded(SumOfEdges(t, cs, m - 1) + euclideanDistance(a, b))

\* C11: totalDistance of a tour of length n is the sum of the n edges
\* (tour[k], tour[(k+1) mod n]), k = 0 .. n-1, the edge from the last
\* position to the first included; it is 0 for n = 0 and n = 1.
C11_TourCost ==
  /\ pc \in {"parse", "main"} => totalDistance(tour, cities) = 0
  /\ pc = "sa_entry" => initialPrinted = SumOfEdges(tour, cities, Len(tour))
  /\ pc = "decide" => newDistance = SumOfEdges(tour, cities, Len(tour))
  /\ (TourBuilt /\ Len(tour) <= 1) => totalDistance(tour, cities) = 0

\* C11 witness: the cost of a proposed tour of four cities or more was
\* computed, and the edge back to the first position is part of it.
C11_Witness ==
  /\ pc = "decide"
  /\ Len(tour) >= 4
  /\ newDistance = SumOfEdges(tour, cities, Len(tour))
  /\ newDistance > SumOfEdges(tour, cities, Len(tour) - 1)

\* The tour reversed end to end.
ReversedTour(t) == Reverse(t, 0, Len(t))

\* How many edges of tour t have the length len.
EdgeCount(t, cs, len) ==
  Cardinality({ k \in 0..(Len(t) - 1) : EdgeLength(t, cs, k) = len })

Abs(v) == IF v < 0 THEN 0 - v ELSE v

CostGap(t, cs) == Abs(totalDistance(ReversedTour(t), cs) - totalDistance(t, cs))

\* n times the weight of the last digit of the larger of the two costs.
RoundingOfAdditions(t, cs) ==
  LET c == totalDistance(t, cs)
      r == totalDistance(ReversedTour(t), cs)
  IN  Len(t) * Granule(IF c < r THEN r ELSE c)

\* C12 as stated: the cost of every tour reversed end to end equals the
\* cost of the tour.
C12_ReversedCostEqual ==
  TourBuilt => totalDistance(ReversedTour(tour), cities) = totalDistance(tour, cities)

\* C12 amended: the reversed tour has the same edge lengths, each as often,
\* as the tour (the distance is symmetric); its cost adds them in another
\* order, so the two costs are equal for up to three cities and otherwise
\* differ by no more than the rounding of the n additions.
C12_ReversedCostUpToRounding ==
  TourBuilt =>
    /\ \A k \in 0..(Len(tour) - 1) :
         EdgeCount(ReversedTour(tour), cities, EdgeLength(tour, cities, k))
           = EdgeCount(tour, cities, EdgeLength(tour, cities, k))
    /\ Len(tour) <= 3 => CostGap(tour, cities) = 0
    /\ CostGap(tour, cities) <= RoundingOfAdditions(tour, cities)

\* C12 witness: a tour of four cities whose reversal has the same edge
\* lengths and another cost.
C12_Witness ==
  /\ TourBuilt
  /\ Len(tour) = 4
  /\ CostGap(tour, cities) > 0
  /\ CostGap(tour, cities) <= RoundingOfAdditions(tour, cities)
  /\ \A k \in 0..(Len(tour) - 1) :
       EdgeCount(ReversedTour(tour), cities, EdgeLength(tour, cities, k))
         = EdgeCount(tour, cities, EdgeLength(tour, cities, k))

\* C13: at the head of the loop, at every iteration and when the loop
\* exits, and before the cooling step, currentDistance is totalDistance of
\* the working tour.
C13_CostMatchesTour ==
  pc \in {"loop", "cool"} => currentDistance = totalDistance(tour, cities)

\* C13 witness: the loop exits on a tour that is neither the initial nor the
\* best one, after a move was rejected or accepted, with its cost cached.
C13_Witness ==
  /\ pc = "loop"
  /\ T <= absoluteTemperature
  /\ moves >= 3
  /\ currentDistance # initialPrinted
  /\ currentDistance # bestDistance
  /\ currentDistance = totalDistance(tour, cities)

\* C14: at the head of the loop, at every iteration and when the loop
\* exits, and right after a move was accepted, bestDistance <= currentDistance.
C14_BestNotAboveCurrent ==
  pc \in {"loop", "cool"} => bestDistance <= currentDistance

\* C14 witness: an uphill move has just been accepted and the best cost is
\* strictly below the current one.
C14_Witness ==
  /\ pc = "cool"
  /\ accepted
  /\ delta > 0
  /\ bestDistance < currentDistance

\* C15: when main has printed the final distance, it is at most the initial
\* distance it printed.
C15_FinalNotWorse ==
  (pc = "exit" /\ exitCode = 0) => finalDistance <= initialPrinted

\* C15 witness: a run ended on a tour worse than the best one and the final
\* distance is below the initial one.
C15_Witness ==
  /\ pc = "exit"
  /\ exitCode = 0
  /\ finalDistance < initialPrinted
  /\ finalDistance < currentDistance

\* The coordinate lines the parser has to accept: after a section marker
\* and before the first end marker.
CoordinateLines(f) ==
  IF ~f.readable THEN {}
  ELSE { k \in 1..Len(f.lines) :
           /\ f.lines[k].kind = "coord"
           /\ \E s \in 1..(k - 1) : f.lines[s].kind = "section"
           /\ \A e \in 1..(k - 1) : f.lines[e].kind # "eof" }

\* C16: a file that cannot be read or holds no coordinate line to accept
\* gives an empty city list, and then main returns 1 and simulatedAnnealing
\* is never entered; otherwise the tour handed to simulatedAnnealing is a
\* permutation of 0 .. n-1, n >= 1 the number of parsed cities.
C16_ShellGuardsEngine ==
  /\ pc # "parse" => Len(cities) = Cardinality(CoordinateLines(file))
  /\ (pc \notin {"parse", "main"} /\ cities = << >>) =>
       (pc = "exit" /\ exitCode = 1 /\ tour = << >>)
  /\ exitCode = 1 => cities = << >>
  /\ pc = "sa_entry" =>
       /\ tour # << >>
       /\ Len(cities) >= 1
       /\ IsPermutation(tour, Len(cities))

\* C16 witness: a readable file with a coordinate line outside the section
\* was parsed to no city and main returned 1.
C16_Witness ==
  /\ pc = "exit"
  /\ exitCode = 1
  /\ file.readable
  /\ \E k \in 1..Len(file.lines) : file.lines[k].kind = "coord"
  /\ cities = << >>
  /\ tour = << >>

====
